---- MODULE Spec2Model ----
(***************************************************************************)
(* Model of NBADataScraper (src/claude_scraper_nbaapi_ver00.py): the rate  *)
(* gate _rate_limit_request, the three gated fetch operations, the derived *)
(* columns of get_player_game_log, spot_check_game, the name resolution of *)
(* get_player_id_by_name and get_team_id_by_name, and the gate as used by  *)
(* several NBADataScraper objects or by several callers of one object.     *)
(*                                                                         *)
(* Time is counted in ticks of 1/TicksPerSecond second.  datetime.now() is *)
(* read as a clock that never runs backwards, and time.sleep(s) as a       *)
(* suspension of at least s.                                               *)
(***************************************************************************)
EXTENDS Integers, Sequences, FiniteSets, TLC

\* ---------------------------------------------------------------- bounds
TicksPerSecond == 2
MaxTime == 4
MaxOversleep == 1

\* ------------------------------------------------------------- constants
\* self.request_delay = 1 (seconds), in ticks
request_delay == 1 * TicksPerSecond

VARIABLES
    now,                \* the wall clock, datetime.now()
    last_request_time,  \* self.last_request_time
    current_time,       \* local of _rate_limit_request
    elapsed,            \* local of _rate_limit_request
    stamps,             \* the last two values _rate_limit_request stored
    pc,                 \* position of the running operation
    op,                 \* the running fetch: "player", "team", "box", "none"
    arg,                \* its player_id / team_id / game_id
    save,               \* its save argument
    caller,             \* "user" or "spot_check"
    gated,              \* the gate was passed and no request was sent since
    response,           \* what the statistics API answered
    exc,                \* the exception in flight, "none" when there is none
    result,             \* the value the fetch returned
    escaped,            \* an exception left the fetch operation
    log,                \* level of the last record the operation logged
    files,              \* CSV files written so far
    check_result,       \* what spot_check_game returned
    player_name,        \* argument of get_player_id_by_name
    player_matches,     \* its local player_matches
    steps,              \* the searches it has made, in order
    player_id,          \* what it returned
    team_name,          \* argument of get_team_id_by_name
    team_matches,       \* its local team_matches
    team_steps,         \* the searches it has made, in order
    team_id,            \* what it returned
    instances,          \* the NBADataScraper objects constructed so far
    inst_last_request_time, \* self.last_request_time of each object
    inst_stamps,        \* the last two values each object's gate stored
    passes,             \* the last two passes of any gate: object and time
    t_pc,               \* position of each caller in _rate_limit_request
    t_self,             \* the object each caller's call is bound to
    t_elapsed,          \* each caller's local elapsed
    t_wake,             \* the time each caller's time.sleep ends
    t_overlap,          \* the caller's call overlapped another caller's
    inst_created        \* the time each object was constructed

vars == <<now, last_request_time, current_time, elapsed, stamps, pc, op, arg, save,
          caller, gated, response, exc, result, escaped, log, files,
          check_result, player_name, player_matches, steps, player_id,
          team_name, team_matches, team_steps, team_id, instances,
          inst_last_request_time, inst_stamps, passes, t_pc, t_self,
          t_elapsed, t_wake, t_overlap, inst_created>>

clockVars == <<now, last_request_time, current_time, elapsed, stamps>>
callVars == <<op, arg, save, caller>>
outVars == <<response, exc, result, escaped, log, files, check_result>>
resolveVars == <<player_name, player_matches, steps, player_id>>
teamVars == <<team_name, team_matches, team_steps, team_id>>
poolVars == <<instances, inst_last_request_time, inst_stamps, passes, t_pc,
              t_self, t_elapsed, t_wake, t_overlap, inst_created>>

\* ------------------------------------------------------------ data frames
\* A DataFrame: its column names and its rows (functions on the columns).
EmptyFrame == [cols |-> {}, rows |-> <<>>]

\* DataFrame.empty: some axis has length 0
IsEmpty(df) == df.rows = <<>> \/ df.cols = {}

\* df[c] = vals, vals holding one value per row
SetColumn(df, c, vals) ==
    [cols |-> df.cols \cup {c},
     rows |-> [i \in 1..Len(df.rows) |->
                  [k \in df.cols \cup {c} |->
                      IF k = c THEN vals[i] ELSE df.rows[i][k]]]]

\* df[c] = v for a scalar v
SetScalar(df, c, v) == SetColumn(df, c, [i \in 1..Len(df.rows) |-> v])

\* --------------------------------------------- derived columns (186-203)
StatCols == {"PTS", "REB", "AST", "STL", "BLK"}

\* (df[c] >= 10).astype(int)
AtLeastTen(row, c) == IF row[c] >= 10 THEN 1 ELSE 0

\* the sum of the five astype(int) terms
CategoryCount(row) ==
    AtLeastTen(row, "PTS") + AtLeastTen(row, "REB") + AtLeastTen(row, "AST")
        + AtLeastTen(row, "STL") + AtLeastTen(row, "BLK")

\* variants of DOUBLE_DOUBLE with the comparison of line 190 altered
DoubleDoubleExactlyTwo(row) == IF CategoryCount(row) = 2 THEN 1 ELSE 0
DoubleDoubleAboveTwo(row) == IF CategoryCount(row) > 2 THEN 1 ELSE 0
\* df['DOUBLE_DOUBLE'] = (... >= 2).astype(int)
DOUBLE_DOUBLE(row) == IF CategoryCount(row) >= 2 THEN 1 ELSE 0

\* df['TRIPLE_DOUBLE'] = (... >= 3).astype(int)
TRIPLE_DOUBLE(row) == IF CategoryCount(row) >= 3 THEN 1 ELSE 0

\* A float cell of a percentage column: a quotient m/a, or one of the
\* IEEE specials.  m and a are 0 in the specials.
Ratio(m, a) == [k |-> "ratio", m |-> m, a |-> a]
Inf == [k |-> "inf", m |-> 0, a |-> 0]
NegInf == [k |-> "-inf", m |-> 0, a |-> 0]
NaN == [k |-> "nan", m |-> 0, a |-> 0]

\* Series / Series on integer columns: true division, x/0 is +-inf, 0/0 NaN,
\* no exception
Div(m, a) ==
    IF a # 0 THEN Ratio(m, a)
    ELSE IF m > 0 THEN Inf
    ELSE IF m < 0 THEN NegInf
    ELSE NaN

FG_PCT(row) == Div(row["FGM"], row["FGA"])
FG3_PCT(row) == Div(row["FG3M"], row["FG3A"])

\* df[c].fillna(0) on a percentage column that exists
FillNa(df, c) ==
    IF c \in df.cols
    THEN SetColumn(df, c,
            [i \in 1..Len(df.rows) |->
                IF df.rows[i][c].k = "nan" THEN Ratio(0, 1)
                ELSE df.rows[i][c]])
    ELSE df

\* variant of lines 199-203 that first fills the NaN cells of the
\* percentage columns it finds
AddPercentagesFillingNaN(df) ==
    LET d0 == FillNa(FillNa(df, "FG_PCT"), "FG3_PCT")
        d1 == IF "FG_PCT" \notin d0.cols /\ "FGM" \in d0.cols
                    /\ "FGA" \in d0.cols
              THEN SetColumn(d0, "FG_PCT",
                      [i \in 1..Len(d0.rows) |-> FG_PCT(d0.rows[i])])
              ELSE d0
    IN  IF "FG3_PCT" \notin d1.cols /\ "FG3M" \in d1.cols
              /\ "FG3A" \in d1.cols
        THEN SetColumn(d1, "FG3_PCT",
                [i \in 1..Len(d1.rows) |-> FG3_PCT(d1.rows[i])])
        ELSE d1
\* lines 199-203: the percentages, where not already provided
AddPercentages(df) ==
    LET d1 == IF "FG_PCT" \notin df.cols /\ "FGM" \in df.cols
                    /\ "FGA" \in df.cols
              THEN SetColumn(df, "FG_PCT",
                      [i \in 1..Len(df.rows) |-> FG_PCT(df.rows[i])])
              ELSE df
    IN  IF "FG3_PCT" \notin d1.cols /\ "FG3M" \in d1.cols
              /\ "FG3A" \in d1.cols
        THEN SetColumn(d1, "FG3_PCT",
                [i \in 1..Len(d1.rows) |-> FG3_PCT(d1.rows[i])])
        ELSE d1

\* df['PTS'] ... raise KeyError when a column is missing
HasStatCols(df) == StatCols \subseteq df.cols

\* lines 186-203 on a frame that has the five stat columns
DeriveColumns(df) ==
    LET d1 == SetColumn(df, "DOUBLE_DOUBLE",
                  [i \in 1..Len(df.rows) |-> DOUBLE_DOUBLE(df.rows[i])])
        d2 == SetColumn(d1, "TRIPLE_DOUBLE",
                  [i \in 1..Len(d1.rows) |-> TRIPLE_DOUBLE(d1.rows[i])])
    IN  AddPercentages(d2)

\* ------------------------------------------- what the statistics API sends
\* One row of a PlayerGameLog result set that lacks the percentage columns
RawRow(pts, reb, ast, stl, blk, fgm, fga, fg3m, fg3a) ==
    [PTS |-> pts, REB |-> reb, AST |-> ast, STL |-> stl, BLK |-> blk,
     FGM |-> fgm, FGA |-> fga, FG3M |-> fg3m, FG3A |-> fg3a]

RawCols == StatCols \cup {"FGM", "FGA", "FG3M", "FG3A"}

\* the same row as the API sends it, with FG_PCT and FG3_PCT filled in
ApiRow(pts, reb, ast, stl, blk, fgm, fga, fg3m, fg3a) ==
    [PTS |-> pts, REB |-> reb, AST |-> ast, STL |-> stl, BLK |-> blk,
     FGM |-> fgm, FGA |-> fga, FG3M |-> fg3m, FG3A |-> fg3a,
     FG_PCT |-> Ratio(fgm, fga), FG3_PCT |-> Ratio(fg3m, fg3a)]

ApiCols == RawCols \cup {"FG_PCT", "FG3_PCT"}

PlayerLogFrames ==
    { [cols |-> ApiCols, rows |-> <<>>],
      [cols |-> ApiCols,
       rows |-> <<ApiRow(10, 10, 3, 0, 0, 4, 8, 1, 2)>>],
      [cols |-> ApiCols,
       rows |-> <<ApiRow(31, 12, 10, 1, 0, 9, 18, 3, 9),
                  ApiRow(8, 2, 1, 0, 0, 3, 9, 0, 1)>>],
      [cols |-> RawCols,
       rows |-> <<RawRow(10, 10, 10, 0, 0, 0, 0, 0, 0)>>],
      \* a result set without the PTS header
      [cols |-> {"REB", "AST"}, rows |-> <<[REB |-> 4, AST |-> 2]>>] }

TeamLogFrames ==
    { [cols |-> {"GAME_ID", "PTS"}, rows |-> <<>>],
      [cols |-> {"GAME_ID", "PTS"},
       rows |-> <<[GAME_ID |-> 7, PTS |-> 11000],
                  [GAME_ID |-> 8, PTS |-> 9800]>>] }

BoxCols == {"TEAM_ID", "PTS"}
BoxFrame(rows) == [cols |-> BoxCols, rows |-> rows]
BoxRow(t, p) == [TEAM_ID |-> t, PTS |-> p]

\* player tables and team tables of BoxScoreTraditionalV2, PTS in hundredths
BoxPlayerFrames ==
    { BoxFrame(<<>>),
      BoxFrame(<<BoxRow(1, 10000), BoxRow(2, 9800)>>) }

BoxTeamFrames ==
    { BoxFrame(<<>>),
      BoxFrame(<<BoxRow(1, 10000), BoxRow(2, 9800)>>) }

\* the failures of the external collaborator, and those raised while the
\* answer is processed and saved; every one is a subclass of Exception
ApiFailures == {"ConnectionError", "JSONDecodeError", "UnknownIdError"}
ExceptionClasses ==
    ApiFailures \cup {"KeyError", "IndexError", "OSError", "AttributeError"}

Ok(frames) == [status |-> "ok", exc |-> "none", frames |-> frames]
Raised(e) == [status |-> "raise", exc |-> e, frames |-> <<>>]
NoResponse == [status |-> "none", exc |-> "none", frames |-> <<>>]

Failures == {Raised(e) : e \in ApiFailures}

PlayerLogResponses == {Ok(<<f>>) : f \in PlayerLogFrames}
TeamLogResponses == {Ok(<<f>>) : f \in TeamLogFrames}
BoxResponses == {Ok(<<p, t>>) : p \in BoxPlayerFrames, t \in BoxTeamFrames}

Responses(o) ==
    Failures \cup
    CASE o = "player" -> PlayerLogResponses
      [] o = "team" -> TeamLogResponses
      [] o = "box" -> BoxResponses

\* ---------------------------------------------------- results of a fetch
NoResult == [kind |-> "pending"]
Table(df) == [kind |-> "table", df |-> df]
BoxScore(p, t) == [kind |-> "box", player_stats |-> p, team_stats |-> t]

\* pd.DataFrame(), or the dict of two of them
EmptyResult(o) ==
    IF o = "box" THEN BoxScore(EmptyFrame, EmptyFrame) ELSE Table(EmptyFrame)

Ids == {1, 2}

\* ----------------------------------------------- name lookup (76-110)
\* A name is a sequence of characters.
Chars == {"a", "b", "c", "A", " "}
MaxNameLen == 3

Names == UNION {[1..n -> Chars] : n \in 0..MaxNameLen}

\* the static snapshot of nba_api.stats.static.players, in its own order
PlayersData ==
    << [id |-> 11, first_name |-> <<"a">>, last_name |-> <<"b">>,
        full_name |-> <<"a", " ", "b">>],
       [id |-> 12, first_name |-> <<"b">>, last_name |-> <<"a">>,
        full_name |-> <<"b", " ", "a">>],
       [id |-> 13, first_name |-> <<"A">>, last_name |-> <<"c">>,
        full_name |-> <<"A", " ", "c">>] >>

\* re.I
Lower(ch) == IF ch = "A" THEN "a" ELSE ch
LowerAll(str) == [i \in 1..Len(str) |-> Lower(str[i])]

\* re.search(pattern, text, flags=re.I) for a pattern of letters and
\* spaces: the pattern occurs somewhere in the text
Search(pattern, text) ==
    \E i \in 0..(Len(text) - Len(pattern)) :
        SubSeq(LowerAll(text), i + 1, i + Len(pattern)) = LowerAll(pattern)

RECURSIVE Filter(_, _, _)
\* the players whose field matches, in the order of the snapshot
Filter(list, pattern, field) ==
    IF list = <<>> THEN <<>>
    ELSE (IF Search(pattern, Head(list)[field]) THEN <<Head(list)>>
          ELSE <<>>) \o Filter(Tail(list), pattern, field)

\* line 88
FindPlayersByFullName(pattern) == Filter(PlayersData, pattern, "full_name")
\* line 92
FindPlayersByFirstName(pattern) == Filter(PlayersData, pattern, "first_name")
\* line 94
FindPlayersByLastName(pattern) == Filter(PlayersData, pattern, "last_name")

RECURSIVE SplitFrom(_, _, _)
\* str.split(): the maximal runs of non-blank characters from position i
\* on, cur being the run that is open
SplitFrom(str, i, cur) ==
    IF i > Len(str) THEN (IF cur = <<>> THEN <<>> ELSE <<cur>>)
    ELSE IF str[i] = " "
    THEN (IF cur = <<>> THEN <<>> ELSE <<cur>>) \o SplitFrom(str, i + 1, <<>>)
    ELSE SplitFrom(str, i + 1, Append(cur, str[i]))

Split(str) == SplitFrom(str, 1, <<>>)

\* the return values of get_player_id_by_name
None == [found |-> FALSE, id |-> 0]
Id(n) == [found |-> TRUE, id |-> n]

\* the NBADataScraper objects and the callers of their gates
Scrapers == {1, 2}
Callers == {1, 2}

\* ------------------------------------------------ construction (25-62)
Init ==
    /\ now = 0
    /\ last_request_time = 0
    /\ current_time = 0
    /\ elapsed = 0
    /\ stamps = <<>>
    /\ pc = "idle"
    /\ op = "none"
    /\ arg = 0
    /\ save = FALSE
    /\ caller = "user"
    /\ gated = FALSE
    /\ response = NoResponse
    /\ exc = "none"
    /\ result = NoResult
    /\ escaped = FALSE
    /\ log = "info"
    /\ files = {}
    /\ check_result = "none"
    /\ player_name = <<>>
    /\ player_matches = <<>>
    /\ steps = <<>>
    /\ player_id = None
    /\ team_name = <<>>
    /\ team_matches = <<>>
    /\ team_steps = <<>>
    /\ team_id = None
    /\ instances = {1}
    /\ inst_last_request_time = [s \in Scrapers |-> 0]
    /\ inst_stamps = [s \in Scrapers |-> <<>>]
    /\ passes = <<>>
    /\ t_pc = [c \in Callers |-> "idle"]
    /\ t_self = [c \in Callers |-> 1]
    /\ t_elapsed = [c \in Callers |-> 0]
    /\ t_wake = [c \in Callers |-> 0]
    /\ t_overlap = [c \in Callers |-> FALSE]
    /\ inst_created = [s \in Scrapers |-> 0]

\* time passes on its own, in any state
Tick ==
    /\ now < MaxTime
    /\ now' = now + 1
    /\ UNCHANGED <<last_request_time, current_time, elapsed, stamps, pc,
                   gated>>
    /\ UNCHANGED callVars
    /\ UNCHANGED outVars
    /\ UNCHANGED resolveVars
    /\ UNCHANGED teamVars
    /\ UNCHANGED poolVars

\* ------------------------------------------ _rate_limit_request (64-74)
\* lines 66-67
RateLimitRead ==
    /\ pc = "rl_read"
    /\ current_time' = now
    /\ elapsed' = now - last_request_time
    /\ pc' = "rl_sleep"
    /\ UNCHANGED <<now, last_request_time, stamps, gated>>
    /\ UNCHANGED callVars
    /\ UNCHANGED outVars
    /\ UNCHANGED resolveVars
    /\ UNCHANGED teamVars
    /\ UNCHANGED poolVars

\* variant of SleepTime that sleeps the elapsed time, not the remainder
SleepTimeElapsed(e) == e
\* line 70
SleepTime(e) == request_delay - e

\* lines 69-72: time.sleep suspends for at least sleep_time
RateLimitSleep ==
    /\ pc = "rl_sleep"
    /\ IF elapsed < request_delay
       THEN \E over \in 0..MaxOversleep :
                now' = now + SleepTime(elapsed) + over
       ELSE now' = now
    /\ pc' = "rl_write"
    /\ UNCHANGED <<last_request_time, current_time, elapsed, stamps, gated>>
    /\ UNCHANGED callVars
    /\ UNCHANGED outVars
    /\ UNCHANGED resolveVars
    /\ UNCHANGED teamVars
    /\ UNCHANGED poolVars

\* variant of line 74 placed inside the if of line 69: the timestamp is
\* stored only by a call that slept
RateLimitWriteAfterSleepOnly ==
    /\ pc = "rl_write"
    /\ last_request_time' = IF elapsed < request_delay THEN now
                            ELSE last_request_time
    /\ stamps' = IF stamps = <<>> THEN <<now>>
                 ELSE <<stamps[Len(stamps)], now>>
    /\ gated' = TRUE
    /\ pc' = "request"
    /\ UNCHANGED <<now, current_time, elapsed>>
    /\ UNCHANGED callVars
    /\ UNCHANGED outVars
    /\ UNCHANGED resolveVars
    /\ UNCHANGED teamVars
    /\ UNCHANGED poolVars

\* line 74
RateLimitWrite ==
    /\ pc = "rl_write"
    /\ last_request_time' = now
    /\ stamps' = IF stamps = <<>> THEN <<now>>
                 ELSE <<stamps[Len(stamps)], now>>
    /\ gated' = TRUE
    /\ pc' = "request"
    /\ UNCHANGED <<now, current_time, elapsed>>
    /\ UNCHANGED callVars
    /\ UNCHANGED outVars
    /\ UNCHANGED resolveVars
    /\ UNCHANGED teamVars
    /\ UNCHANGED poolVars

\* ------------------------------------------------- the fetch operations
\* variant of FirstStep in which get_team_game_log skips the gate
FirstStepTeamUngated(o) == IF o = "team" THEN "request" ELSE "rl_read"
\* lines 159, 231, 279: the statement after the first logger.info
FirstStep(o) == "rl_read"

Call(o, a, s, c) ==
    /\ now < MaxTime
    /\ op' = o
    /\ arg' = a
    /\ save' = s
    /\ caller' = c
    /\ log' = "info"
    /\ response' = NoResponse
    /\ exc' = "none"
    /\ result' = NoResult
    /\ escaped' = FALSE
    /\ files' = {}
    /\ pc' = FirstStep(o)
    /\ UNCHANGED <<gated, check_result>>
    /\ UNCHANGED clockVars
    /\ UNCHANGED resolveVars
    /\ UNCHANGED teamVars
    /\ UNCHANGED poolVars

\* line 146
GetPlayerGameLogCall ==
    /\ pc = "idle"
    /\ \E a \in Ids, s \in BOOLEAN : Call("player", a, s, "user")

\* line 218
GetTeamGameLogCall ==
    /\ pc = "idle"
    /\ \E a \in Ids, s \in BOOLEAN : Call("team", a, s, "user")

\* line 266
GetBoxScoreCall ==
    /\ pc = "idle"
    /\ \E a \in Ids, s \in BOOLEAN : Call("box", a, s, "user")

\* lines 162, 234, 282: the endpoint object is built, the request goes out
SendRequest(R) ==
    /\ pc = "request"
    /\ \E r \in R :
          /\ response' = r
          /\ exc' = r.exc
    /\ gated' = FALSE
    /\ pc' = "process"
    /\ UNCHANGED <<result, escaped, log, files, check_result>>
    /\ UNCHANGED clockVars
    /\ UNCHANGED resolveVars
    /\ UNCHANGED teamVars
    /\ UNCHANGED poolVars
    /\ UNCHANGED callVars

Request == SendRequest(Responses(op))

\* where the fetch returns to
ReturnTo == IF caller = "user" THEN "idle" ELSE "check"

\* variant of Catches for a handler written as except KeyError
CatchesKeyErrorOnly(e) == e = "KeyError"
\* lines 214, 262, 306: except Exception as e
Catches(e) == e \in ExceptionClasses

\* a return statement of a fetch, after logging at level lvl
Return(r, lvl, fs) ==
    /\ result' = r
    /\ log' = lvl
    /\ files' = fs
    /\ escaped' = FALSE
    /\ pc' = ReturnTo
    /\ UNCHANGED <<response, exc, check_result, gated>>
    /\ UNCHANGED clockVars
    /\ UNCHANGED resolveVars
    /\ UNCHANGED teamVars
    /\ UNCHANGED poolVars
    /\ UNCHANGED callVars

\* variant of Fail in which a failed write is logged and the fetched rows
\* are returned all the same
FailKeepingRows(e, fs) ==
    /\ exc' = e
    /\ files' = fs
    /\ IF e = "OSError"
       THEN /\ result' = (IF op = "box"
                          THEN BoxScore(response.frames[1], response.frames[2])
                          ELSE Table(response.frames[1]))
            /\ log' = "error"
            /\ escaped' = FALSE
       ELSE IF Catches(e)
       THEN /\ result' = EmptyResult(op)
            /\ log' = "error"
            /\ escaped' = FALSE
       ELSE /\ result' = NoResult
            /\ log' = log
            /\ escaped' = TRUE
    /\ pc' = ReturnTo
    /\ UNCHANGED <<response, check_result, gated>>
    /\ UNCHANGED clockVars
    /\ UNCHANGED resolveVars
    /\ UNCHANGED teamVars
    /\ UNCHANGED poolVars
    /\ UNCHANGED callVars

\* e is raised inside the try block of the fetch (lines 214-216, 262-264,
\* 306-308)
Fail(e, fs) ==
    /\ exc' = e
    /\ files' = fs
    /\ IF Catches(e)
       THEN /\ result' = EmptyResult(op)
            /\ log' = "error"
            /\ escaped' = FALSE
       ELSE /\ result' = NoResult
            /\ log' = log
            /\ escaped' = TRUE
    /\ pc' = ReturnTo
    /\ UNCHANGED <<response, check_result, gated>>
    /\ UNCHANGED clockVars
    /\ UNCHANGED resolveVars
    /\ UNCHANGED teamVars
    /\ UNCHANGED poolVars
    /\ UNCHANGED callVars

\* lines 169-212; df.to_csv writes the file or raises OSError
ProcessPlayer ==
    /\ pc = "process"
    /\ op = "player"
    /\ IF response.status = "raise" THEN Fail(response.exc, files)
       ELSE LET df == response.frames[1]
                tagged == SetScalar(df, "PLAYER_ID", arg)
            IN  IF IsEmpty(df)
                THEN Return(Table(EmptyFrame), "warning", files)
                ELSE IF ~HasStatCols(tagged) THEN Fail("KeyError", files)
                ELSE IF save
                THEN \/ Return(Table(DeriveColumns(tagged)), "info",
                               files \cup {"player_games"})
                     \/ Fail("OSError", files)
                ELSE Return(Table(DeriveColumns(tagged)), "info", files)

\* lines 241-260
ProcessTeam ==
    /\ pc = "process"
    /\ op = "team"
    /\ IF response.status = "raise" THEN Fail(response.exc, files)
       ELSE LET df == response.frames[1]
                tagged == SetScalar(df, "TEAM_ID", arg)
            IN  IF IsEmpty(df)
                THEN Return(Table(EmptyFrame), "warning", files)
                ELSE IF save
                THEN \/ Return(Table(tagged), "info",
                               files \cup {"team_games"})
                     \/ Fail("OSError", files)
                ELSE Return(Table(tagged), "info", files)

\* variant of EitherEmpty with and in place of or
EitherEmptyAnd(p, t) == IsEmpty(p) /\ IsEmpty(t)
\* line 288
EitherEmpty(p, t) == IsEmpty(p) \/ IsEmpty(t)

\* lines 285-304
ProcessBox ==
    /\ pc = "process"
    /\ op = "box"
    /\ IF response.status = "raise" THEN Fail(response.exc, files)
       ELSE LET player_stats == response.frames[1]
                team_stats == response.frames[2]
            IN  IF EitherEmpty(player_stats, team_stats)
                THEN Return(BoxScore(EmptyFrame, EmptyFrame), "warning",
                            files)
                ELSE IF save
                THEN \/ Return(BoxScore(player_stats, team_stats), "info",
                               files \cup {"box_player", "box_team"})
                     \/ Fail("OSError", files)
                     \/ Fail("OSError", files \cup {"box_player"})
                ELSE Return(BoxScore(player_stats, team_stats), "info",
                            files)

Next ==
    \/ Tick
    \/ GetPlayerGameLogCall
    \/ GetTeamGameLogCall
    \/ GetBoxScoreCall
    \/ RateLimitRead
    \/ RateLimitSleep
    \/ RateLimitWrite
    \/ Request
    \/ ProcessPlayer
    \/ ProcessTeam
    \/ ProcessBox

Spec == Init /\ [][Next]_vars

TypeOK ==
    /\ now \in 0..(MaxTime + request_delay + MaxOversleep)
    /\ last_request_time \in 0..now
    /\ pc \in {"idle", "rl_read", "rl_sleep", "rl_write", "request",
               "process", "check", "find_full", "find_first", "find_last",
               "select"}

\* ------------------------------------- the derived columns on many rows
\* Values around the threshold of 10 for the three categories that reach
\* it often, and below / at it for steals and blocks.
StatVals == {3, 9, 10, 11}
RareStatVals == {0, 10}

\* <<FGM, FGA, FG3M, FG3A>>: makes without attempts, ordinary games, no
\* attempts at all
ShotCases == { <<5, 0, 0, 0>>, <<5, 10, 1, 2>>, <<0, 0, 2, 0>>,
               <<0, 10, 0, 5>> }

\* which of the percentage columns the result set brings along
PctColumnSets == SUBSET {"FG_PCT", "FG3_PCT"}

\* the shots and the percentage columns of a result set: every case of
\* shots without percentage columns, and zero attempts next to each set of
\* provided columns
ShotColumnCases ==
    {<<shots, {}>> : shots \in ShotCases}
        \cup {<<<<5, 0, 2, 0>>, pcts>> : pcts \in PctColumnSets}

\* a provided percentage is some value of the API's own
ProvidedPct == Ratio(1, 3)

NormRow(pts, reb, ast, stl, blk, shots, pcts) ==
    [c \in RawCols \cup pcts |->
        CASE c = "PTS" -> pts
          [] c = "REB" -> reb
          [] c = "AST" -> ast
          [] c = "STL" -> stl
          [] c = "BLK" -> blk
          [] c = "FGM" -> shots[1]
          [] c = "FGA" -> shots[2]
          [] c = "FG3M" -> shots[3]
          [] c = "FG3A" -> shots[4]
          [] OTHER -> ProvidedPct]

NormFrames ==
    { [cols |-> RawCols \cup sc[2],
       rows |-> <<NormRow(pts, reb, ast, stl, blk, sc[1], sc[2])>>] :
         pts \in StatVals, reb \in StatVals, ast \in StatVals,
         stl \in RareStatVals, blk \in RareStatVals,
         sc \in ShotColumnCases }
    \cup
    { [cols |-> RawCols,
       rows |-> <<NormRow(10, 10, 3, 0, 0, <<5, 0, 0, 0>>, {}),
                  NormRow(10, 10, 10, 0, 0, <<5, 10, 1, 2>>, {})>>] }

NormResponses == {Ok(<<f>>) : f \in NormFrames}

RequestNorm == SendRequest(NormResponses)

\* get_player_game_log, called again and again on one scraper
NextNorm ==
    \/ GetPlayerGameLogCall
    \/ RateLimitRead
    \/ RateLimitSleep
    \/ RateLimitWrite
    \/ RequestNorm
    \/ ProcessPlayer

SpecNorm == Init /\ [][NextNorm]_vars

\* ------------------------------ the derived columns on normalized rows
\* what get_player_game_log returns for the result sets above: rows that
\* carry the derived columns already
NormalizedFrames ==
    {DeriveColumns(SetScalar(f, "PLAYER_ID", a)) : f \in NormFrames, a \in Ids}

ReplayResponses == {Ok(<<f>>) : f \in NormalizedFrames}

\* the result set is an earlier output of get_player_game_log
RequestReplay == SendRequest(ReplayResponses)

NextIdem ==
    \/ GetPlayerGameLogCall
    \/ RateLimitRead
    \/ RateLimitSleep
    \/ RateLimitWrite
    \/ RequestNorm
    \/ RequestReplay
    \/ ProcessPlayer

SpecIdem == Init /\ [][NextIdem]_vars

\* --------------------------------------------- spot_check_game (597-645)
MaxPlayerRows == 2
MaxTeamRows == 2

\* 0.1 point (lines 628-629), PTS being counted in hundredths of a point
Tolerance == 10

\* a PTS cell without a value (a player who did not play) is negative here
IsNaN(v) == v < 0

CheckTeamIds == {1, 2}
CheckTeamPts == {0, 10000}
CheckPlayerPts == {-1, 5000, 5005}

SeqsUpTo(S, n) == UNION {[1..k -> S] : k \in 0..n}

CheckPlayerFrames ==
    {BoxFrame(rows) :
        rows \in SeqsUpTo({BoxRow(t, p) : t \in CheckTeamIds,
                                          p \in CheckPlayerPts},
                          MaxPlayerRows)}

CheckTeamFrames ==
    {BoxFrame(rows) :
        rows \in SeqsUpTo({BoxRow(t, p) : t \in CheckTeamIds,
                                          p \in CheckTeamPts},
                          MaxTeamRows)}

CheckResponses ==
    Failures \cup
    {Ok(<<p, t>>) : p \in CheckPlayerFrames, t \in CheckTeamFrames}

\* team_stats.loc[team_stats['TEAM_ID'] == id, 'PTS'].values[0]
ReportedPts(team_stats, id) ==
    LET first == CHOOSE i \in 1..Len(team_stats.rows) :
                    /\ team_stats.rows[i]["TEAM_ID"] = id
                    /\ \A j \in 1..(i - 1) :
                          team_stats.rows[j]["TEAM_ID"] # id
    IN  team_stats.rows[first]["PTS"]

RECURSIVE SumPtsFrom(_, _, _)
\* player_stats.loc[player_stats['TEAM_ID'] == id, 'PTS'].sum(), which
\* skips the cells without a value
SumPtsFrom(rows, id, i) ==
    IF i > Len(rows) THEN 0
    ELSE (IF rows[i]["TEAM_ID"] = id /\ ~IsNaN(rows[i]["PTS"])
          THEN rows[i]["PTS"] ELSE 0) + SumPtsFrom(rows, id, i + 1)

PlayerPts(player_stats, id) == SumPtsFrom(player_stats.rows, id, 1)

Abs(x) == IF x < 0 THEN -x ELSE x

\* variant of Within with <= in place of <
WithinOrEqual(reported, calculated) ==
    Abs(reported - calculated) <= Tolerance
\* lines 628-629: abs(team_pts - player_pts) < 0.1
Within(reported, calculated) == Abs(reported - calculated) < Tolerance

\* variant of SpotCheckCatches for a handler written as except KeyError
SpotCheckCatchesKeyErrorOnly(e) == e = "KeyError"
\* line 643: except Exception as e
SpotCheckCatches(e) == e \in ExceptionClasses

\* line 597, up to the call of line 611: get_box_score(game_id, save=False)
SpotCheckCall ==
    /\ pc = "idle"
    /\ check_result' = "none"
    /\ \E a \in Ids :
          /\ now < MaxTime
          /\ op' = "box"
          /\ arg' = a
          /\ save' = FALSE
          /\ caller' = "spot_check"
          /\ log' = "info"
          /\ response' = NoResponse
          /\ exc' = "none"
          /\ result' = NoResult
          /\ escaped' = FALSE
          /\ files' = {}
          /\ pc' = FirstStep("box")
    /\ UNCHANGED gated
    /\ UNCHANGED clockVars
    /\ UNCHANGED resolveVars
    /\ UNCHANGED teamVars
    /\ UNCHANGED poolVars

RequestCheck == SendRequest(CheckResponses)

\* a return statement of spot_check_game
CheckReturn(v, lvl) ==
    /\ check_result' = v
    /\ log' = lvl
    /\ exc' = exc
    /\ pc' = "idle"

\* e is raised inside the try block of spot_check_game (lines 643-645)
CheckRaise(e) ==
    /\ exc' = e
    /\ pc' = "idle"
    /\ IF SpotCheckCatches(e)
       THEN check_result' = "False" /\ log' = "error"
       ELSE check_result' = "raised" /\ log' = log

\* lines 613-645, on the box score get_box_score returned
SpotCheck ==
    /\ pc = "check"
    /\ IF escaped THEN CheckRaise(exc)
       ELSE LET player_stats == result.player_stats
                team_stats == result.team_stats
            IN  IF ~IsEmpty(player_stats) /\ ~IsEmpty(team_stats)
                THEN IF Len(team_stats.rows) < 2 THEN CheckRaise("IndexError")
                     ELSE LET home_team_id == team_stats.rows[1]["TEAM_ID"]
                              away_team_id == team_stats.rows[2]["TEAM_ID"]
                              home_check ==
                                  Within(ReportedPts(team_stats, home_team_id),
                                         PlayerPts(player_stats, home_team_id))
                              away_check ==
                                  Within(ReportedPts(team_stats, away_team_id),
                                         PlayerPts(player_stats, away_team_id))
                          IN  IF home_check /\ away_check
                              THEN CheckReturn("True", "info")
                              ELSE CheckReturn("False", "warning")
                ELSE CheckReturn("False", "warning")
    /\ UNCHANGED <<response, result, escaped, files, gated>>
    /\ UNCHANGED clockVars
    /\ UNCHANGED resolveVars
    /\ UNCHANGED teamVars
    /\ UNCHANGED poolVars
    /\ UNCHANGED callVars

\* spot_check_game, called again and again on one scraper
NextCheck ==
    \/ SpotCheckCall
    \/ RateLimitRead
    \/ RateLimitSleep
    \/ RateLimitWrite
    \/ RequestCheck
    \/ ProcessBox
    \/ SpotCheck

SpecCheck == Init /\ [][NextCheck]_vars

\* --------------------------------------- get_player_id_by_name (76-110)
notResolveVars ==
    <<now, last_request_time, current_time, elapsed, stamps, op, arg, save,
      caller, gated, response, result, escaped, files, check_result>>

\* line 76
GetPlayerIdCall ==
    /\ pc = "idle"
    /\ \E n \in Names : player_name' = n
    /\ player_matches' = <<>>
    /\ steps' = <<>>
    /\ player_id' = None
    /\ exc' = "none"
    /\ log' = "info"
    /\ pc' = "find_full"
    /\ UNCHANGED notResolveVars
    /\ UNCHANGED teamVars
    /\ UNCHANGED poolVars

\* lines 108-110
ResolveRaise(e) ==
    /\ exc' = e
    /\ log' = "error"
    /\ player_id' = None
    /\ pc' = "idle"
    /\ UNCHANGED <<player_name, player_matches, steps>>

\* lines 88-90
FindFull ==
    /\ pc = "find_full"
    /\ player_matches' = FindPlayersByFullName(player_name)
    /\ steps' = Append(steps, "full")
    /\ pc' = IF player_matches' = <<>> THEN "find_first" ELSE "select"
    /\ UNCHANGED <<player_name, player_id, exc, log>>
    /\ UNCHANGED notResolveVars
    /\ UNCHANGED teamVars
    /\ UNCHANGED poolVars

\* variant of AfterFirst that forgets to test the first-name matches
AfterFirstIgnoringMatches(matches, tokens) ==
    IF Len(tokens) > 1 THEN "find_last" ELSE "select"
\* line 93
AfterFirst(matches, tokens) ==
    IF matches = <<>> /\ Len(tokens) > 1 THEN "find_last" ELSE "select"

\* lines 92-93; split()[0] raises IndexError when there is no token
FindFirst ==
    /\ pc = "find_first"
    /\ IF Split(player_name) = <<>> THEN ResolveRaise("IndexError")
       ELSE /\ player_matches' =
                  FindPlayersByFirstName(Split(player_name)[1])
            /\ steps' = Append(steps, "first")
            /\ pc' = AfterFirst(player_matches', Split(player_name))
            /\ UNCHANGED <<player_name, player_id, exc, log>>
    /\ UNCHANGED notResolveVars
    /\ UNCHANGED teamVars
    /\ UNCHANGED poolVars

\* line 94
FindLast ==
    /\ pc = "find_last"
    /\ player_matches' =
          FindPlayersByLastName(
              Split(player_name)[Len(Split(player_name))])
    /\ steps' = Append(steps, "last")
    /\ pc' = "select"
    /\ UNCHANGED <<player_name, player_id, exc, log>>
    /\ UNCHANGED notResolveVars
    /\ UNCHANGED teamVars
    /\ UNCHANGED poolVars

\* lines 96-106
Select ==
    /\ pc = "select"
    /\ IF player_matches # <<>>
       THEN /\ player_id' = Id(player_matches[1].id)
            /\ log' = IF Len(player_matches) > 1 THEN "warning" ELSE "info"
       ELSE /\ player_id' = None
            /\ log' = "error"
    /\ pc' = "idle"
    /\ UNCHANGED <<player_name, player_matches, steps, exc>>
    /\ UNCHANGED notResolveVars
    /\ UNCHANGED teamVars
    /\ UNCHANGED poolVars

NextResolve ==
    \/ GetPlayerIdCall
    \/ FindFull
    \/ FindFirst
    \/ FindLast
    \/ Select

SpecResolve == Init /\ [][NextResolve]_vars

\* --------------------------------------- get_team_id_by_name (112-144)
\* the static team snapshot, in its original order: the first two full
\* names share their first word, the nickname of the third is no part of
\* its full name
TeamsData ==
    << [id |-> 21, full_name |-> <<"a", " ", "b">>,
        abbreviation |-> <<"a", "c">>, nickname |-> <<"b">>],
       [id |-> 22, full_name |-> <<"a", " ", "c">>,
        abbreviation |-> <<"c", "c">>, nickname |-> <<"c">>],
       [id |-> 23, full_name |-> <<"b", "b">>,
        abbreviation |-> <<"b", "a">>, nickname |-> <<"c", "a">>] >>

\* how a call of the static teams module ends
Returned(m) == [exc |-> "none", matches |-> m]
Raises(e) == [exc |-> e, matches |-> <<>>]

\* line 124
FindTeamsByFullName(pattern) ==
    Returned(Filter(TeamsData, pattern, "full_name"))

\* line 128: nba_api.stats.static.teams defines find_team_by_abbreviation
\* (one team or None) and no find_teams_by_abbreviation, so evaluating
\* teams.find_teams_by_abbreviation raises AttributeError
FindTeamsByAbbreviation(pattern) == Raises("AttributeError")

\* line 132
FindTeamsByNickname(pattern) ==
    Returned(Filter(TeamsData, pattern, "nickname"))

\* one search of lines 124-132 and the state of the lookup after it
After(step, found, before) ==
    [exc |-> found.exc, matches |-> found.matches,
     steps |-> Append(before.steps, step)]

\* "if not team_matches", reached only when nothing was raised
NoMatchYet(lookup) == lookup.exc = "none" /\ lookup.matches = <<>>

\* lines 122-132: the searches made for team_name, up to the first that
\* matches or raises
TeamLookup(name) ==
    LET full == After("full", FindTeamsByFullName(name),
                      [steps |-> <<>>])
        abbr == IF NoMatchYet(full)
                THEN After("abbreviation", FindTeamsByAbbreviation(name),
                           full)
                ELSE full
    IN  IF NoMatchYet(abbr)
        THEN After("nickname", FindTeamsByNickname(name), abbr)
        ELSE abbr

\* lines 134-137: the level logged when team_matches is not empty
TeamFoundLevel(matches) == "info"

notTeamVars ==
    <<now, last_request_time, current_time, elapsed, stamps, op, arg, save,
      caller, gated, response, result, files, check_result, pc>>

\* lines 112-144, the whole operation
GetTeamIdByName ==
    /\ pc = "idle"
    /\ \E n \in Names :
        LET lookup == TeamLookup(n)
        IN  /\ team_name' = n
            /\ team_matches' = lookup.matches
            /\ team_steps' = lookup.steps
            /\ exc' = lookup.exc
            /\ escaped' = (lookup.exc # "none" /\ ~Catches(lookup.exc))
            /\ IF lookup.exc = "none" /\ lookup.matches # <<>>
               THEN /\ team_id' = Id(lookup.matches[1].id)
                    /\ log' = TeamFoundLevel(lookup.matches)
               ELSE /\ team_id' = None
                    /\ log' = "error"
    /\ UNCHANGED notTeamVars
    /\ UNCHANGED resolveVars
    /\ UNCHANGED poolVars

SpecTeam == Init /\ [][GetTeamIdByName]_vars

\* ------------------- _rate_limit_request of several objects and callers
\* The gate of lines 64-74 once more, with self.last_request_time kept
\* per NBADataScraper object (line 61 assigns an instance attribute) and
\* the locals kept per caller.  A pass of the gate is the moment line 74
\* lets the request of the caller go out.
notPoolVars ==
    <<last_request_time, current_time, elapsed, stamps, pc, op, arg, save,
      caller, gated, response, exc, result, escaped, log, files,
      check_result>>

\* time passes; a caller inside time.sleep can always wait for its end
PoolTick ==
    /\ \/ now < MaxTime
       \/ \E c \in Callers : t_pc[c] = "sleeping" /\ now < t_wake[c]
    /\ now' = now + 1
    /\ UNCHANGED notPoolVars
    /\ UNCHANGED resolveVars
    /\ UNCHANGED teamVars
    /\ UNCHANGED poolVars

\* lines 60-62: NBADataScraper(...) constructs one more object between
\* two calls, as demo_usage2 does after demo_usage
Construct(s) ==
    /\ s \notin instances
    /\ \A c \in Callers : t_pc[c] = "idle"
    /\ instances' = instances \cup {s}
    /\ inst_last_request_time' = [inst_last_request_time EXCEPT ![s] = now]
    /\ inst_created' = [inst_created EXCEPT ![s] = now]
    /\ UNCHANGED <<now, inst_stamps, passes, t_pc, t_self, t_elapsed, t_wake,
                   t_overlap>>
    /\ UNCHANGED notPoolVars
    /\ UNCHANGED resolveVars
    /\ UNCHANGED teamVars

\* line 64: caller c calls s._rate_limit_request()
Enter(c, s) ==
    /\ t_pc[c] = "idle"
    /\ s \in instances
    /\ now < MaxTime
    /\ t_pc' = [t_pc EXCEPT ![c] = "read"]
    /\ t_self' = [t_self EXCEPT ![c] = s]
    /\ t_elapsed' = [t_elapsed EXCEPT ![c] = 0]
    /\ t_wake' = [t_wake EXCEPT ![c] = 0]
    /\ t_overlap' = [t_overlap EXCEPT ![c] = FALSE]
    /\ UNCHANGED <<now, instances, inst_last_request_time, inst_stamps,
                   passes, inst_created>>
    /\ UNCHANGED notPoolVars
    /\ UNCHANGED resolveVars
    /\ UNCHANGED teamVars

\* the same, in a program whose calls follow one another
EnterAlone(c, s) ==
    /\ \A d \in Callers : t_pc[d] = "idle"
    /\ Enter(c, s)

\* the callers that have read the timestamp of object s and not yet
\* stored theirs
InGate(s) ==
    {d \in Callers : t_self[d] = s /\ t_pc[d] \in {"sleep", "sleeping", "write"}}

\* lines 66-67
GateRead(c) ==
    /\ t_pc[c] = "read"
    /\ t_elapsed' = [t_elapsed EXCEPT
                        ![c] = now - inst_last_request_time[t_self[c]]]
    /\ t_overlap' = [d \in Callers |->
                        IF InGate(t_self[c]) # {}
                              /\ d \in InGate(t_self[c]) \cup {c}
                        THEN TRUE ELSE t_overlap[d]]
    /\ t_pc' = [t_pc EXCEPT ![c] = "sleep"]
    /\ UNCHANGED <<now, instances, inst_last_request_time, inst_stamps,
                   passes, t_self, t_wake, inst_created>>
    /\ UNCHANGED notPoolVars
    /\ UNCHANGED resolveVars
    /\ UNCHANGED teamVars

\* variant of WakeTime without lines 69-72
WakeTimeNoSleep(t, e) == t
\* lines 69-72: the earliest time at which the caller goes on
WakeTime(t, e) == IF e < request_delay THEN t + SleepTime(e) ELSE t

\* lines 69-72: the caller starts to sleep, or does not
GateSleep(c) ==
    /\ t_pc[c] = "sleep"
    /\ t_wake' = [t_wake EXCEPT ![c] = WakeTime(now, t_elapsed[c])]
    /\ t_pc' = [t_pc EXCEPT ![c] = "sleeping"]
    /\ UNCHANGED <<now, instances, inst_last_request_time, inst_stamps,
                   passes, t_self, t_elapsed, t_overlap, inst_created>>
    /\ UNCHANGED notPoolVars
    /\ UNCHANGED resolveVars
    /\ UNCHANGED teamVars

\* line 72: time.sleep returns, not before the time asked for
GateWake(c) ==
    /\ t_pc[c] = "sleeping"
    /\ now >= t_wake[c]
    /\ t_pc' = [t_pc EXCEPT ![c] = "write"]
    /\ UNCHANGED <<now, instances, inst_last_request_time, inst_stamps,
                   passes, t_self, t_elapsed, t_wake, t_overlap,
                   inst_created>>
    /\ UNCHANGED notPoolVars
    /\ UNCHANGED resolveVars
    /\ UNCHANGED teamVars

\* the last two entries of a history after x is added
LastTwo(h, x) == IF h = <<>> THEN <<x>> ELSE <<h[Len(h)], x>>

\* line 74, after which the request of the caller goes out
GateWrite(c) ==
    /\ t_pc[c] = "write"
    /\ inst_last_request_time' =
           [inst_last_request_time EXCEPT ![t_self[c]] = now]
    /\ inst_stamps' =
           [inst_stamps EXCEPT ![t_self[c]] = LastTwo(inst_stamps[t_self[c]], now)]
    /\ passes' = LastTwo(passes, [self |-> t_self[c], caller |-> c,
                                  t |-> now, overlap |-> t_overlap[c]])
    /\ t_pc' = [t_pc EXCEPT ![c] = "idle"]
    /\ UNCHANGED <<now, instances, t_self, t_elapsed, t_wake, t_overlap,
                   inst_created>>
    /\ UNCHANGED notPoolVars
    /\ UNCHANGED resolveVars
    /\ UNCHANGED teamVars

\* one thread of control that uses two NBADataScraper objects in turn
NextInstances ==
    \/ PoolTick
    \/ \E s \in Scrapers : Construct(s)
    \/ \E s \in Scrapers : EnterAlone(1, s)
    \/ GateRead(1)
    \/ GateSleep(1)
    \/ GateWake(1)
    \/ GateWrite(1)

SpecInstances == Init /\ [][NextInstances]_vars

\* two callers that share the first NBADataScraper object, their steps
\* interleaved in any way
NextThreads ==
    \/ PoolTick
    \/ \E c \in Callers : Enter(c, 1)
    \/ \E c \in Callers : GateRead(c)
    \/ \E c \in Callers : GateSleep(c)
    \/ \E c \in Callers : GateWake(c)
    \/ \E c \in Callers : GateWrite(c)

SpecThreads == Init /\ [][NextThreads]_vars

\* ------------------------------------------------------------- claims
\* C1: any two consecutive calls of _rate_limit_request store last-request
\* timestamps that are at least request_delay apart, also when the second
\* call starts with zero elapsed time since the first.
C1_MinimumSpacing ==
    Len(stamps) = 2 => stamps[2] - stamps[1] >= request_delay

\* the second of two gate calls started at the very timestamp the first
\* one stored, and has stored its own
C1_Witness ==
    /\ Len(stamps) = 2
    /\ pc = "request"
    /\ elapsed = 0
    /\ current_time = stamps[1]

\* C2: an outbound request is sent only right after the gate was passed:
\* whenever a fetch stands at its request to PlayerGameLog, TeamGameLog or
\* BoxScoreTraditionalV2, _rate_limit_request has completed since the
\* previous outbound request, so no path reaches the request ungated and
\* a gate call lies between any two requests.
C2_RequestIsGated ==
    /\ pc = "request" => gated
    /\ pc = "process" => ~gated

\* a second request has gone out, after a second gate call
C2_Witness ==
    /\ pc = "process"
    /\ Len(stamps) = 2
    /\ response.status # "none"

\* C3: a failure raised by the external collaborator inside any of the
\* three fetches is caught there: the fetch returns its empty result and
\* logs an error, and no exception leaves a fetch operation.
C3_FailureBecomesEmpty ==
    /\ ~escaped
    /\ (pc \in {"idle", "check"} /\ response.status = "raise") =>
          /\ result = EmptyResult(op)
          /\ log = "error"

\* get_team_game_log has returned an empty table after the API raised
C3_Witness ==
    /\ pc = "idle"
    /\ response.status = "raise"
    /\ response.exc = "ConnectionError"
    /\ op = "team"
    /\ result = Table(EmptyFrame)

\* C4: a BoxScore returned by get_box_score has both tables non-empty or
\* both empty, on every path; an answer with only one empty table is
\* returned as two empty tables.
C4_BoxScoreAtomic ==
    result.kind = "box" =>
        /\ IsEmpty(result.player_stats) <=> IsEmpty(result.team_stats)
        /\ (response.status = "ok"
              /\ (IsEmpty(response.frames[1]) \/ IsEmpty(response.frames[2])))
           => result = BoxScore(EmptyFrame, EmptyFrame)

\* the API answered with player rows but no team rows
C4_Witness ==
    /\ result.kind = "box"
    /\ response.status = "ok"
    /\ ~IsEmpty(response.frames[1])
    /\ IsEmpty(response.frames[2])

\* the number of the five categories in which the row reaches 10
TenOrMore(r) == Cardinality({c \in StatCols : r[c] >= 10})

\* get_player_game_log has returned a table of rows
ReturnedRows ==
    pc = "idle" /\ op = "player" /\ result.kind = "table"
        /\ ~IsEmpty(result.df)

\* C5: in every row get_player_game_log returns, DOUBLE_DOUBLE is 1 exactly
\* when at least two of PTS, REB, AST, STL, BLK are >= 10 and TRIPLE_DOUBLE
\* is 1 exactly when at least three are, otherwise 0; so (10,10,3,0,0)
\* gives 1 and 0, and (10,10,10,0,0) gives 1 and 1.
C5_FlagsCountCategories ==
    ReturnedRows =>
        \A i \in 1..Len(result.df.rows) :
            LET r == result.df.rows[i]
            IN  /\ r["DOUBLE_DOUBLE"] = (IF TenOrMore(r) >= 2 THEN 1 ELSE 0)
                /\ r["TRIPLE_DOUBLE"] = (IF TenOrMore(r) >= 3 THEN 1 ELSE 0)

\* the two rows of the examples have been returned, flagged 1,0 and 1,1
C5_Witness ==
    /\ ReturnedRows
    /\ Len(result.df.rows) = 2
    /\ LET r == result.df.rows[1]
           q == result.df.rows[2]
       IN  /\ <<r["PTS"], r["REB"], r["AST"], r["STL"], r["BLK"]>>
                 = <<10, 10, 3, 0, 0>>
           /\ <<r["DOUBLE_DOUBLE"], r["TRIPLE_DOUBLE"]>> = <<1, 0>>
           /\ <<q["PTS"], q["REB"], q["AST"], q["STL"], q["BLK"]>>
                 = <<10, 10, 10, 0, 0>>
           /\ <<q["DOUBLE_DOUBLE"], q["TRIPLE_DOUBLE"]>> = <<1, 1>>

\* C6: in every row get_player_game_log returns, TRIPLE_DOUBLE = 1 implies
\* DOUBLE_DOUBLE = 1.
C6_TripleImpliesDouble ==
    ReturnedRows =>
        \A i \in 1..Len(result.df.rows) :
            result.df.rows[i]["TRIPLE_DOUBLE"] = 1
                => result.df.rows[i]["DOUBLE_DOUBLE"] = 1

\* a row with all five categories at 10 or more came back with both flags
C6_Witness ==
    /\ ReturnedRows
    /\ TenOrMore(result.df.rows[1]) = 5
    /\ result.df.rows[1]["TRIPLE_DOUBLE"] = 1
    /\ result.df.rows[1]["DOUBLE_DOUBLE"] = 1

\* C7: when the raw rows have no FG_PCT (FG3_PCT) column, a row with zero
\* attempts gets a null sentinel as its percentage (not 0, not the inf or
\* NaN of a division by zero) and the operation does not fail; a row with
\* attempts gets makes/attempts; a percentage column that exists already is
\* left as it was.
C7_ZeroAttemptsIsNull ==
    (pc = "idle" /\ op = "player" /\ response.status = "ok"
        /\ ~IsEmpty(response.frames[1]) /\ ~save) =>
        /\ result.kind = "table"
        /\ Len(result.df.rows) = Len(response.frames[1].rows)
        /\ \A i \in 1..Len(result.df.rows) :
              LET raw == response.frames[1]
                  r == result.df.rows[i]
              IN  /\ IF "FG_PCT" \in raw.cols
                     THEN r["FG_PCT"] = raw.rows[i]["FG_PCT"]
                     ELSE IF r["FGA"] = 0 THEN r["FG_PCT"].k = "null"
                     ELSE r["FG_PCT"] = Ratio(r["FGM"], r["FGA"])
                  /\ IF "FG3_PCT" \in raw.cols
                     THEN r["FG3_PCT"] = raw.rows[i]["FG3_PCT"]
                     ELSE IF r["FG3A"] = 0 THEN r["FG3_PCT"].k = "null"
                     ELSE r["FG3_PCT"] = Ratio(r["FG3M"], r["FG3A"])

RECURSIVE SumOf(_, _)
\* the sum of f over the finite index set S
SumOf(f, S) ==
    IF S = {} THEN 0
    ELSE LET i == CHOOSE j \in S : TRUE IN f[i] + SumOf(f, S \ {i})

\* the points of the player rows of team t that carry a value
TeamTotal(player_stats, t) ==
    SumOf([i \in 1..Len(player_stats.rows) |-> player_stats.rows[i]["PTS"]],
          {i \in 1..Len(player_stats.rows) :
              /\ player_stats.rows[i]["TEAM_ID"] = t
              /\ player_stats.rows[i]["PTS"] >= 0})

\* reported minus summed points of the team of team row n
Discrepancy(box, n) ==
    box.team_stats.rows[n]["PTS"]
        - TeamTotal(box.player_stats, box.team_stats.rows[n]["TEAM_ID"])

\* spot_check_game has returned, having got a box score of two team rows
\* for two teams
CheckedTwoTeams ==
    /\ pc = "idle"
    /\ caller = "spot_check"
    /\ result.kind = "box"
    /\ Len(result.team_stats.rows) = 2
    /\ result.team_stats.rows[1]["TEAM_ID"]
          # result.team_stats.rows[2]["TEAM_ID"]

\* C8: on a box score with two team rows spot_check_game returns True if
\* and only if for both teams the reported PTS and the sum of the team's
\* player PTS differ by strictly less than 0.1; a difference of exactly 0.1
\* on either side gives False.
C8_StrictTolerance ==
    CheckedTwoTeams =>
        /\ check_result = "True" <=>
              \A n \in 1..2 :
                  /\ Discrepancy(result, n) < Tolerance
                  /\ Discrepancy(result, n) > -Tolerance
        /\ (\E n \in 1..2 : Discrepancy(result, n) \in {Tolerance, -Tolerance})
              => check_result = "False"

\* reported {100, 0} against summed {100.05, 0} has passed
C8_Witness ==
    /\ CheckedTwoTeams
    /\ check_result = "True"
    /\ result.team_stats.rows[1]["PTS"] = 10000
    /\ result.team_stats.rows[2]["PTS"] = 0
    /\ Discrepancy(result, 1) = -5
    /\ Discrepancy(result, 2) = 0

\* C9: spot_check_game always ends with a boolean and never raises: fewer
\* than two team rows, no player rows, a failed fetch and totals of the two
\* teams beyond the tolerance all give False.
C9_AlwaysBoolean ==
    /\ check_result \in {"none", "True", "False"}
    /\ (pc = "idle" /\ caller = "spot_check") =>
          /\ check_result \in {"True", "False"}
          /\ response.status = "raise" => check_result = "False"
          /\ (response.status = "ok"
                /\ (Len(response.frames[2].rows) < 2
                      \/ Len(response.frames[1].rows) = 0))
             => check_result = "False"
          /\ (CheckedTwoTeams
                /\ \E n \in 1..2 : \/ Discrepancy(result, n) > Tolerance
                                   \/ Discrepancy(result, n) < -Tolerance)
             => check_result = "False"

\* a box score with player rows and a single team row was checked
C9_Witness ==
    /\ pc = "idle"
    /\ caller = "spot_check"
    /\ response.status = "ok"
    /\ Len(response.frames[2].rows) = 1
    /\ Len(response.frames[1].rows) > 0
    /\ exc = "IndexError"
    /\ check_result = "False"

\* get_player_id_by_name has returned
Resolved == pc = "idle" /\ steps # <<>>

\* C10: get_player_id_by_name searches in a fixed order: the full name on
\* the whole input; the first name on the first token only if that found
\* nothing; the last name on the last token only if the full-name search
\* found nothing and the input has more than one token.  It returns the id
\* of the first match of the first search that matched, and None if every
\* search it made found nothing.
C10_ResolutionOrder ==
    Resolved =>
        LET tokens == Split(player_name)
            full == FindPlayersByFullName(player_name)
            first == FindPlayersByFirstName(tokens[1])
            last == FindPlayersByLastName(tokens[Len(tokens)])
        IN  /\ steps \in {<<"full">>, <<"full", "first">>,
                          <<"full", "first", "last">>}
            /\ Len(steps) >= 2 => full = <<>>
            /\ Len(steps) = 3 => full = <<>> /\ Len(tokens) > 1
            /\ IF full # <<>> THEN player_id = Id(full[1].id)
               ELSE IF tokens = <<>> THEN player_id = None
               ELSE IF first # <<>> THEN player_id = Id(first[1].id)
               ELSE IF Len(steps) = 3 /\ last # <<>>
               THEN player_id = Id(last[1].id)
               ELSE player_id = None

\* a two-token name was resolved by its last name, after the full-name and
\* the first-name search had found nothing
C10_Witness ==
    /\ Resolved
    /\ steps = <<"full", "first", "last">>
    /\ player_name = <<"c", " ", "b">>
    /\ player_id = Id(11)

\* get_team_id_by_name has returned
TeamResolved == team_steps # <<>>

\* the result the three-step resolution of a team name has: the id of the
\* first match of the first search that matches, None when none matches
FirstMatchOf(full, abbr, nick) ==
    IF full # <<>> THEN Id(full[1].id)
    ELSE IF abbr # <<>> THEN Id(abbr[1].id)
    ELSE IF nick # <<>> THEN Id(nick[1].id)
    ELSE None

\* C11: get_team_id_by_name searches by full name, then by abbreviation,
\* then by nickname, a later search only when every earlier one found
\* nothing; it returns the id of the first match of the first search that
\* matched, and None, without raising, when none of the three matched.
C11_TeamResolutionOrder ==
    TeamResolved =>
        /\ ~escaped
        /\ team_id = FirstMatchOf(Filter(TeamsData, team_name, "full_name"),
                                  Filter(TeamsData, team_name, "abbreviation"),
                                  Filter(TeamsData, team_name, "nickname"))

\* C12: when a search returns more than one match, get_player_id_by_name
\* and get_team_id_by_name return the id of the first match and log a
\* warning: the result is no error and the choice is signalled.
C12_MultiMatchWarns ==
    /\ (Resolved /\ Len(player_matches) > 1) =>
           (player_id = Id(player_matches[1].id) /\ log = "warning")
    /\ (TeamResolved /\ Len(team_matches) > 1) =>
           (team_id = Id(team_matches[1].id) /\ log = "warning")

\* C13: get_player_id_by_name returns None for a name without any
\* token (empty, or blanks only): no exception leaves the call and no
\* player is resolved.
C13_BlankNameIsNone ==
    (Resolved /\ Split(player_name) = <<>>) =>
        (player_id = None /\ ~escaped)

DerivedCols == {"DOUBLE_DOUBLE", "TRIPLE_DOUBLE", "FG_PCT", "FG3_PCT"}

\* the rows sent to get_player_game_log carried the derived columns
Renormalized == ReturnedRows /\ DerivedCols \subseteq response.frames[1].cols

\* row i of a frame, as a frame of its own
OnlyRow(df, i) == [cols |-> df.cols, rows |-> <<df.rows[i]>>]

\* C14: when the rows given to the derivation of get_player_game_log are
\* an earlier output of it, DOUBLE_DOUBLE, TRIPLE_DOUBLE, FG_PCT and
\* FG3_PCT come back unchanged; and the derived values of a row are those
\* the row gets when it is derived alone, whatever rows stand beside it.
C14_DerivationIdempotent ==
    /\ Renormalized =>
           \A i \in 1..Len(result.df.rows) : \A c \in DerivedCols :
               result.df.rows[i][c] = response.frames[1].rows[i][c]
    /\ ReturnedRows =>
           \A i \in 1..Len(result.df.rows) : \A c \in DerivedCols :
               result.df.rows[i][c]
                   = DeriveColumns(OnlyRow(response.frames[1], i)).rows[1][c]

\* two rows with different flags and percentages were derived a second
\* time; the first holds the inf of makes without attempts
C14_Witness ==
    /\ Renormalized
    /\ Len(result.df.rows) = 2
    /\ result.df.rows[1]["TRIPLE_DOUBLE"] # result.df.rows[2]["TRIPLE_DOUBLE"]
    /\ result.df.rows[1]["FG_PCT"] = Inf
    /\ result.df.rows[2]["FG_PCT"] = Ratio(5, 10)

\* C15: the step that ends a call of _rate_limit_request stores the
\* current time in last_request_time, whether the call slept or not, so
\* the stored time is not earlier than the time the call read at its
\* start; and no step ever lowers last_request_time.
C15_StampIsNow ==
    [][/\ last_request_time' >= last_request_time
       /\ (pc = "rl_write" /\ pc' = "request") =>
              /\ last_request_time' = now'
              /\ last_request_time' >= current_time]_vars

\* a second call that did not sleep has stored the current time, later
\* than the time the call before it stored
C15_Witness ==
    /\ pc = "request"
    /\ gated
    /\ elapsed >= request_delay
    /\ last_request_time = now
    /\ Len(stamps) = 2
    /\ stamps[1] < stamps[2]

\* the time between the last two passes of any gate
PassGap == passes[2].t - passes[1].t

C17_SpacingNeedsSerialCalls ==
    (Len(passes) = 2 /\ PassGap < request_delay) => passes[2].overlap

\* two callers of the same object have both passed its gate, the second
\* less than request_delay after the first
C17_Witness ==
    /\ Len(passes) = 2
    /\ passes[1].caller # passes[2].caller
    /\ passes[1].self = passes[2].self
    /\ PassGap < request_delay
    /\ \A c \in Callers : t_pc[c] = "idle"

\* the CSV files a fetch called with save=True writes
FilesOf(o) ==
    IF o = "player" THEN {"player_games"}
    ELSE IF o = "team" THEN {"team_games"}
    ELSE {"box_player", "box_team"}

\* the fetch has returned rows
NonEmptyResult ==
    \/ result.kind = "table" /\ ~IsEmpty(result.df)
    \/ result.kind = "box" /\ ~IsEmpty(result.player_stats)

\* C18: a fetch called with save=True returns rows only when every CSV
\* file of the call was written; when a write fails after the rows were
\* fetched, the fetch returns the empty result and no exception leaves it.
\* (get_box_score whose second write fails: see C18_Witness.)
C18_RowsOnlyWhenSaved ==
    pc \in {"idle", "check"} =>
        /\ (save /\ NonEmptyResult) => FilesOf(op) \subseteq files
        /\ (exc = "OSError") =>
               /\ response.status = "ok"
               /\ ~IsEmpty(response.frames[1])
               /\ result = EmptyResult(op)
               /\ ~escaped

\* get_box_score fetched both tables and wrote the player file, the write
\* of the team file failed and the box score returned is empty
C18_Witness ==
    /\ pc = "idle"
    /\ op = "box"
    /\ save
    /\ exc = "OSError"
    /\ files = {"box_player"}
    /\ ~IsEmpty(response.frames[1])
    /\ ~IsEmpty(response.frames[2])
    /\ result = BoxScore(EmptyFrame, EmptyFrame)

====
